---- MODULE Spec2Model ----
(***************************************************************************)
(* Model of webpagetest.py: the URL validator (validate_urls), the         *)
(* retrying submitter (test_site_with_retry) and the Streamlit script that *)
(* validates an uploaded table, gates on the operator's confirmation and   *)
(* submits every row in turn.                                              *)
(*                                                                         *)
(* A Python str is a sequence of one-character strings.  A JSON value (and *)
(* Python's None) is a record tagged by "kind".                            *)
(***************************************************************************)
EXTENDS Integers, Sequences, FiniteSets, TLC

\* ------------------------------------------------------------------ bounds
MaxRows == 3
MaxUrlLen == 4
MaxRetriesArg == 3
MaxDelayArg == 1
MaxRowsArgs == 1

\* --------------------------------------------------------- program constants
DEFAULT_MAX_RETRIES == 3
DEFAULT_DELAY == 5

HTTPS_PREFIX == <<"h", "t", "t", "p", "s", ":", "/", "/">>
ERROR_SENTINEL == <<"E", "r", "r", "o", "r", " ", "p", "r", "o", "c", "e", "s", "s", "i", "n", "g", " ", "U", "R", "L">>
KEY_DATA == <<"d", "a", "t", "a">>
KEY_JSONURL == <<"j", "s", "o", "n", "U", "r", "l">>
MSG_MISSING_DOMAIN == "Missing domain name"
MSG_INVALID_DOMAIN == "Invalid domain format"
MSG_INVALID_IPV6 == "Invalid IPv6 URL"

\* ------------------------------------------------------------ Python strings
ASCII_UPPER == <<"A", "B", "C", "D", "E", "F", "G", "H", "I", "J", "K", "L", "M", "N", "O", "P", "Q", "R", "S", "T", "U", "V", "W", "X", "Y", "Z">>
ASCII_LOWER == <<"a", "b", "c", "d", "e", "f", "g", "h", "i", "j", "k", "l", "m", "n", "o", "p", "q", "r", "s", "t", "u", "v", "w", "x", "y", "z">>
DIGITS == <<"0", "1", "2", "3", "4", "5", "6", "7", "8", "9">>
Range(s) == {s[i] : i \in 1..Len(s)}
\* str.strip() with no argument removes these from both ends
WHITESPACE == {" ", "\t", "\n", "\r"}
\* urllib.parse._WHATWG_C0_CONTROL_OR_SPACE (the members a table cell can hold)
C0_CONTROL_OR_SPACE == {" ", "\t", "\n", "\r"}
\* urllib.parse._UNSAFE_URL_BYTES_TO_REMOVE
UNSAFE_URL_BYTES_TO_REMOVE == {"\t", "\r", "\n"}
\* urllib.parse.scheme_chars
scheme_chars == Range(ASCII_LOWER) \cup Range(ASCII_UPPER) \cup Range(DIGITS) \cup {"+", "-", "."}
\* urllib.parse.uses_params
uses_params == {<<>>,
    <<"f", "t", "p">>, <<"h", "d", "l">>, <<"p", "r", "o", "s", "p", "e", "r", "o">>,
    <<"h", "t", "t", "p">>, <<"i", "m", "a", "p">>, <<"h", "t", "t", "p", "s">>,
    <<"s", "h", "t", "t", "p">>, <<"r", "t", "s", "p">>, <<"r", "t", "s", "p", "u">>,
    <<"s", "i", "p">>, <<"s", "i", "p", "s">>, <<"m", "m", "s">>,
    <<"s", "f", "t", "p">>, <<"t", "e", "l">>}

\* s[i:] and s[:i] with 1-based positions: From(s, i) keeps s[i..], Upto(s, i) keeps s[1..i]
From(s, i) == SubSeq(s, i, Len(s))
Upto(s, i) == SubSeq(s, 1, i)

\* position of the first element of s (at or after position lo) that is in cs; 0 when none
FindIn(s, cs, lo) ==
    IF \E i \in lo..Len(s) : s[i] \in cs
    THEN CHOOSE i \in lo..Len(s) : s[i] \in cs /\ \A j \in lo..(i - 1) : s[j] \notin cs
    ELSE 0

\* position of the last element of s that is in cs; 0 when none
RFindIn(s, cs) ==
    IF \E i \in 1..Len(s) : s[i] \in cs
    THEN CHOOSE i \in 1..Len(s) : s[i] \in cs /\ \A j \in (i + 1)..Len(s) : s[j] \notin cs
    ELSE 0

\* str.lstrip(cs), str.rstrip(cs), str.strip()
LStrip(s, cs) ==
    LET k == FindIn(s, Range(s) \ cs, 1)
    IN IF k = 0 THEN <<>> ELSE From(s, k)
RStrip(s, cs) ==
    LET k == RFindIn(s, Range(s) \ cs)
    IN Upto(s, k)
Strip(s) == RStrip(LStrip(s, WHITESPACE), WHITESPACE)

\* str.lower() on ASCII letters
LowerChar(c) ==
    IF \E i \in 1..Len(ASCII_UPPER) : ASCII_UPPER[i] = c
    THEN ASCII_LOWER[CHOOSE i \in 1..Len(ASCII_UPPER) : ASCII_UPPER[i] = c]
    ELSE c
Lower(s) == [i \in 1..Len(s) |-> LowerChar(s[i])]

\* `needle in s` for two str values (substring test)
IsSubstring(needle, s) ==
    \E i \in 1..(Len(s) - Len(needle) + 1) : SubSeq(s, i, i + Len(needle) - 1) = needle

\* ------------------------------------------------------ urllib.parse.urlparse
\* The result of a parse: the components, or raised = TRUE for ValueError.
ParseRaised == [raised |-> TRUE, scheme |-> <<>>, netloc |-> <<>>, path |-> <<>>,
                params |-> <<>>, query |-> <<>>, fragment |-> <<>>]

\* urlsplit's scheme detection: the position of the ':' that ends a scheme, 0 when none
SchemeEnd(url) ==
    LET i == FindIn(url, {":"}, 1)
    IN IF i > 1 /\ url[1] \in (Range(ASCII_LOWER) \cup Range(ASCII_UPPER))
              /\ \A j \in 1..(i - 1) : url[j] \in scheme_chars
       THEN i ELSE 0

\* urllib.parse._splitparams on the path
SplitParams(url) ==
    LET slash == RFindIn(url, {"/"})
        i == FindIn(url, {";"}, IF slash = 0 THEN 1 ELSE slash)
    IN IF i = 0 THEN <<url, <<>>>> ELSE <<Upto(url, i - 1), From(url, i + 1)>>

\* urlsplit, stage by stage; each stage hands what is left of the url to the next.
\* Last: the bracket check on the netloc, and urlparse's split of the params.
ParseParams(scheme, hasNetloc, netloc, url, query, fragment) ==
    IF hasNetloc /\ (("[" \in Range(netloc)) # ("]" \in Range(netloc)))
    THEN ParseRaised
    ELSE IF scheme \in uses_params /\ ";" \in Range(url)
    THEN [raised |-> FALSE, scheme |-> scheme, netloc |-> netloc, path |-> SplitParams(url)[1],
          params |-> SplitParams(url)[2], query |-> query, fragment |-> fragment]
    ELSE [raised |-> FALSE, scheme |-> scheme, netloc |-> netloc, path |-> url,
          params |-> <<>>, query |-> query, fragment |-> fragment]

\* if '?' in url: url, query = url.split('?', 1)
ParseQuery(scheme, hasNetloc, netloc, url, fragment) ==
    LET qm == FindIn(url, {"?"}, 1)
    IN IF qm = 0
       THEN ParseParams(scheme, hasNetloc, netloc, url, <<>>, fragment)
       ELSE ParseParams(scheme, hasNetloc, netloc, Upto(url, qm - 1), From(url, qm + 1), fragment)

\* if '#' in url: url, fragment = url.split('#', 1)
ParseFragment(scheme, hasNetloc, netloc, url) ==
    LET hash == FindIn(url, {"#"}, 1)
    IN IF hash = 0
       THEN ParseQuery(scheme, hasNetloc, netloc, url, <<>>)
       ELSE ParseQuery(scheme, hasNetloc, netloc, Upto(url, hash - 1), From(url, hash + 1))

\* if url[:2] == '//': netloc, url = _splitnetloc(url, 2); the netloc runs to the first of / ? #
ParseNetloc(scheme, url) ==
    LET delim == FindIn(url, {"/", "?", "#"}, 3)
    IN IF ~(Len(url) >= 2 /\ url[1] = "/" /\ url[2] = "/")
       THEN ParseFragment(scheme, FALSE, <<>>, url)
       ELSE IF delim = 0
       THEN ParseFragment(scheme, TRUE, From(url, 3), <<>>)
       ELSE ParseFragment(scheme, TRUE, SubSeq(url, 3, delim - 1), From(url, delim))

\* scheme, url = url[:i].lower(), url[i+1:]
ParseScheme(url) ==
    LET se == SchemeEnd(url)
    IN IF se = 0
       THEN ParseNetloc(<<>>, url)
       ELSE ParseNetloc(Lower(Upto(url, se - 1)), From(url, se + 1))

\* url.lstrip(_WHATWG_C0_CONTROL_OR_SPACE) with the unsafe bytes removed
Sanitize(raw) ==
    SelectSeq(LStrip(raw, C0_CONTROL_OR_SPACE), LAMBDA c : c \notin UNSAFE_URL_BYTES_TO_REMOVE)

urlparse(raw) == ParseScheme(Sanitize(raw))

\* ------------------------------------------------------------- validate_urls
\* The checks on the parse that decide the issue; "" when there is none
Classify(parsed) ==
    IF parsed.raised THEN MSG_INVALID_IPV6
    ELSE IF parsed.netloc = <<>> THEN MSG_MISSING_DOMAIN
    ELSE IF "." \notin Range(parsed.netloc) THEN MSG_INVALID_DOMAIN
    ELSE ""

\* (the auto-prefix is missing)
NeverPrefix(parsed) == FALSE
\* if not parsed.scheme and not parsed.netloc
NeedsPrefix(parsed) == ~parsed.raised /\ parsed.scheme = <<>> /\ parsed.netloc = <<>>

\* One pass of the loop body: the (url, issue) pair appended, issue = "" when none is.
validate_one(url) ==
    IF NeedsPrefix(urlparse(Strip(url)))
    THEN [url |-> HTTPS_PREFIX \o url, issue |-> Classify(urlparse(HTTPS_PREFIX \o url))]
    ELSE [url |-> url, issue |-> Classify(urlparse(Strip(url)))]

validate_urls(urls) ==
    SelectSeq([i \in 1..Len(urls) |-> validate_one(urls[i])], LAMBDA e : e.issue # "")

\* ------------------------------------------ test_site_with_retry: the target
\* clean_url of one attempt, or raised = TRUE when urlparse raises inside the try
\* (the path is left out of the target)
CleanOfHostOnly(parsed_url) ==
    IF parsed_url.raised THEN [raised |-> TRUE, target |-> <<>>]
    ELSE [raised |-> FALSE, target |-> RStrip(parsed_url.netloc, {"/"})]
CleanOf(parsed_url) ==
    IF parsed_url.raised THEN [raised |-> TRUE, target |-> <<>>]
    ELSE [raised |-> FALSE, target |-> RStrip(parsed_url.netloc \o parsed_url.path, {"/"})]
clean_url(url) == CleanOf(urlparse(url))

\* --------------------------------------------------------------- JSON values
\* response.json() returns one of these; JNull is also Python's None.
JNull == [kind |-> "null"]
JNum(n) == [kind |-> "number", num |-> n]
JStr(s) == [kind |-> "string", str |-> s]
JList(items) == [kind |-> "array", items |-> items]
JObj(f) == [kind |-> "object", fields |-> f]

\* bool(v)
Truthy(v) ==
    CASE v.kind = "null" -> FALSE
      [] v.kind = "number" -> v.num # 0
      [] v.kind = "string" -> v.str # <<>>
      [] v.kind = "array" -> v.items # <<>>
      [] v.kind = "object" -> DOMAIN v.fields # {}

\* `key in v` for a str key: raised = TRUE is TypeError
In(key, v) ==
    CASE v.kind = "object" -> [raised |-> FALSE, value |-> key \in DOMAIN v.fields]
      [] v.kind = "string" -> [raised |-> FALSE, value |-> IsSubstring(key, v.str)]
      [] v.kind = "array" -> [raised |-> FALSE, value |-> \E i \in 1..Len(v.items) : v.items[i] = JStr(key)]
      [] OTHER -> [raised |-> TRUE, value |-> FALSE]

\* `v[key]` for a str key: raised = TRUE is TypeError or KeyError
GetItem(v, key) ==
    IF v.kind = "object" /\ key \in DOMAIN v.fields
    THEN [raised |-> FALSE, value |-> v.fields[key]]
    ELSE [raised |-> TRUE, value |-> JNull]

\* A parsed response that carries data.jsonUrl
HasJsonUrl(v) ==
    /\ v.kind = "object" /\ KEY_DATA \in DOMAIN v.fields
    /\ v.fields[KEY_DATA].kind = "object" /\ KEY_JSONURL \in DOMAIN v.fields[KEY_DATA].fields
\* The Results cell of a row that failed
SentinelCell == JStr(ERROR_SENTINEL)
\* The Results cell before the row is processed (df['Results'] = '')
EmptyCell == JStr(<<>>)

\* (no else branch: a row without a link keeps its empty cell)
ExtractResultNoElse(result) ==
    IF Truthy(result) /\ HasJsonUrl(result)
    THEN [raised |-> FALSE, cell |-> GetItem(GetItem(result, KEY_DATA).value, KEY_JSONURL).value]
    ELSE [raised |-> FALSE, cell |-> EmptyCell]

\* (no test of `result` itself: None raises TypeError in `'data' in result`)
ExtractResultNoNoneTest(result) ==
    IF In(KEY_DATA, result).raised THEN [raised |-> TRUE, cell |-> EmptyCell]
    ELSE IF HasJsonUrl(result)
    THEN [raised |-> FALSE, cell |-> GetItem(GetItem(result, KEY_DATA).value, KEY_JSONURL).value]
    ELSE [raised |-> FALSE, cell |-> SentinelCell]

\* The if/else that turns a call's result into the row's Results cell;
\* raised = TRUE when evaluating the condition raises.
ExtractResult(result) ==
    IF ~Truthy(result) THEN [raised |-> FALSE, cell |-> SentinelCell]
    ELSE IF In(KEY_DATA, result).raised THEN [raised |-> TRUE, cell |-> EmptyCell]
    ELSE IF ~In(KEY_DATA, result).value THEN [raised |-> FALSE, cell |-> SentinelCell]
    ELSE IF GetItem(result, KEY_DATA).raised THEN [raised |-> TRUE, cell |-> EmptyCell]
    ELSE IF In(KEY_JSONURL, GetItem(result, KEY_DATA).value).raised THEN [raised |-> TRUE, cell |-> EmptyCell]
    ELSE IF ~In(KEY_JSONURL, GetItem(result, KEY_DATA).value).value THEN [raised |-> FALSE, cell |-> SentinelCell]
    ELSE IF GetItem(GetItem(result, KEY_DATA).value, KEY_JSONURL).raised THEN [raised |-> TRUE, cell |-> EmptyCell]
    ELSE [raised |-> FALSE, cell |-> GetItem(GetItem(result, KEY_DATA).value, KEY_JSONURL).value]

\* (df['Results'] != 'Error processing URL').mean() * 100 formatted with .1f,
\* as the number of tenths of a percent shown (667 is "66.7%").
SuccessCount(cells) == Cardinality({i \in 1..Len(cells) : cells[i] # SentinelCell})
FormatTenths(num, den) ==
    LET q == (1000 * num) \div den
        r == (1000 * num) % den
    IN IF 2 * r > den \/ (2 * r = den /\ q % 2 = 1) THEN q + 1 ELSE q
success_rate_of(cells) == FormatTenths(SuccessCount(cells), Len(cells))

\* ------------------------------------------------------ inputs of the model
\* Result links the remote API hands out
LinkA == <<"r", "/", "1">>
LinkB == <<"r", "/", "2">>
\* Bodies the remote API may answer with (status 2xx, parseable JSON)
ResponseBodies == {
    JObj(KEY_DATA :> JObj(KEY_JSONURL :> JStr(LinkA))),
    JObj(KEY_DATA :> JObj(KEY_JSONURL :> JStr(LinkB))),
    JObj(<<>>),
    JObj(KEY_DATA :> JObj(<<>>)),
    JObj(<<"s", "t", "a", "t", "u", "s", "C", "o", "d", "e">> :> JNum(400)),
    JObj(KEY_DATA :> JNull),
    JObj(KEY_DATA :> JStr(KEY_JSONURL)),
    JNum(5),
    JStr(KEY_DATA),
    JNull }
\* What can go wrong inside one attempt once the request is sent
RequestFailures == {"ConnectionError", "HTTPError", "JSONDecodeError"}

URL_EXAMPLE_COM == <<"e", "x", "a", "m", "p", "l", "e", ".", "c", "o", "m">>
URL_LOCALHOST == <<"l", "o", "c", "a", "l", "h", "o", "s", "t">>
URL_NOT_A_URL == <<"n", "o", "t", " ", "a", " ", "u", "r", "l">>
URL_BAD_BRACKET == <<"h", "t", "t", "p", ":", "/", "/", "[">>
\* First-column values of the uploaded tables
SampleUrls == {URL_EXAMPLE_COM, URL_LOCALHOST}
Tables(urls, n) == UNION {[1..k -> urls] : k \in 0..n}

\* Characters of the generated URLs (a cell read from the file is never the empty str)
Alphabet == {"a", ".", ":", "/", " ", "?", ";", "["}
AllUrls == UNION {[1..k -> Alphabet] : k \in 1..MaxUrlLen}
             \cup {URL_EXAMPLE_COM, URL_LOCALHOST, URL_NOT_A_URL}

\* -------------------------------------------------------------------- state
VARIABLES
    provided,      \* a file is uploaded and an API key entered
    df,            \* first column of the uploaded table
    checkbox,      \* "Proceed with testing despite URL warnings"
    button,        \* this script run was started by a click on "Run Tests"
    pc,            \* position of the script, or how the last run ended
    invalid_urls,  \* what validate_urls returned in this run
    validated,     \* rows validate_urls has looked at in this run
    results,       \* df['Results']
    writes,        \* how many times each row's Results cell was assigned
    outcomes,      \* how each call of the rows done ended: "failed", "link" or "no link"
    idx,           \* rows done by the batch loop
    max_retries,   \* argument of test_site_with_retry
    delay,         \* argument of test_site_with_retry
    attempt,       \* loop variable of test_site_with_retry
    clean,         \* clean_url of the attempt
    inflight,      \* rows whose HTTP request is outstanding
    log,           \* what the call in progress did: requests, exceptions, sleeps
    ret,           \* result of the latest call
    output_data,   \* st.session_state.output_data: "None", or "tsv" once a table was
                   \* serialised (the script only tests it for truth)
    success_rate   \* the metric shown, in tenths of a percent; -1 when not shown

vars == <<provided, df, checkbox, button, pc, invalid_urls, validated, results, writes,
          outcomes, idx, max_retries, delay, attempt, clean, inflight, log, ret,
          output_data, success_rate>>

Event(ev, kind, secs, body) == [ev |-> ev, kind |-> kind, secs |-> secs, body |-> body]
NoTarget == [raised |-> FALSE, target |-> <<>>]

\* State of a script run that has not started
Fresh ==
    /\ invalid_urls = <<>> /\ validated = {} /\ results = <<>> /\ writes = <<>>
    /\ outcomes = <<>> /\ idx = 0 /\ attempt = 0 /\ clean = NoTarget /\ inflight = {}
    /\ log = <<>> /\ ret = JNull /\ success_rate = -1

InitWith(tables, retries, delays, start) ==
    /\ provided = FALSE /\ checkbox = FALSE /\ button = FALSE
    /\ df \in tables
    /\ max_retries \in retries /\ delay \in delays
    /\ pc = start
    /\ output_data = "None"
    /\ Fresh

\* The script as run: test_site_with_retry('POST', site_url, api_key)
Init == InitWith(Tables(SampleUrls, MaxRows), {DEFAULT_MAX_RETRIES}, {DEFAULT_DELAY}, "info")

\* test_site_with_retry called with other max_retries and delay
InitArgs == InitWith(Tables({URL_EXAMPLE_COM, URL_BAD_BRACKET}, MaxRowsArgs), (-1)..MaxRetriesArg, 0..MaxDelayArg, "info")

\* ------------------------------------------------------- operator's actions
\* Widgets the last script run rendered, by how it ended
CheckboxShown == pc \in {"stopped_gate", "await_button", "complete", "error"} /\ invalid_urls # <<>>
ButtonShown == pc \in {"await_button", "complete", "error"}
DownloadShown == pc = "complete"

\* Every interaction reruns the script from its first line
Rerun ==
    /\ pc' = "read_file"
    /\ invalid_urls' = <<>> /\ validated' = {} /\ results' = <<>> /\ writes' = <<>>
    /\ outcomes' = <<>> /\ idx' = 0 /\ attempt' = 0 /\ clean' = NoTarget /\ inflight' = {}
    /\ log' = <<>> /\ ret' = JNull /\ success_rate' = -1
    /\ UNCHANGED <<df, max_retries, delay, output_data>>

\* The operator enters the API key and uploads the file
ProvideInputs ==
    /\ pc = "info" /\ ~provided
    /\ provided' = TRUE /\ button' = FALSE
    /\ UNCHANGED checkbox
    /\ Rerun

ToggleCheckbox ==
    /\ CheckboxShown
    /\ checkbox' = ~checkbox /\ button' = FALSE
    /\ UNCHANGED provided
    /\ Rerun

ClickRunTests ==
    /\ ButtonShown
    /\ button' = TRUE
    /\ UNCHANGED <<provided, checkbox>>
    /\ Rerun

ClickDownload ==
    /\ DownloadShown
    /\ button' = FALSE
    /\ UNCHANGED <<provided, checkbox>>
    /\ Rerun

\* ------------------------------------------------------------ the script run
\* read the file; an empty table stops the run
ReadFile ==
    /\ pc = "read_file"
    /\ pc' = IF df = <<>> THEN "stopped_empty" ELSE "validate"
    /\ UNCHANGED <<provided, df, checkbox, button, invalid_urls, validated, results, writes,
                   outcomes, idx, max_retries, delay, attempt, clean, inflight, log, ret,
                   output_data, success_rate>>

\* invalid_urls = validate_urls(df[url_column])
Validate ==
    /\ pc = "validate"
    /\ invalid_urls' = validate_urls(df)
    /\ validated' = 1..Len(df)
    /\ pc' = "gate"
    /\ UNCHANGED <<provided, df, checkbox, button, results, writes, outcomes, idx, max_retries,
                   delay, attempt, clean, inflight, log, ret, output_data, success_rate>>

\* with warnings the run stops unless the checkbox is ticked
\* (the st.stop() is missing)
GateAlwaysPasses(invalid, ticked) == TRUE
GatePasses(invalid, ticked) == invalid = <<>> \/ ticked
Gate ==
    /\ pc = "gate"
    /\ pc' = IF GatePasses(invalid_urls, checkbox) THEN "button" ELSE "stopped_gate"
    /\ UNCHANGED <<provided, df, checkbox, button, invalid_urls, validated, results, writes,
                   outcomes, idx, max_retries, delay, attempt, clean, inflight, log, ret,
                   output_data, success_rate>>

\* the Results column is added; the batch starts when the button was clicked
Button ==
    /\ pc = "button"
    /\ results' = [i \in 1..Len(df) |-> EmptyCell]
    /\ writes' = [i \in 1..Len(df) |-> 0]
    /\ pc' = IF button THEN "loop" ELSE "await_button"
    /\ UNCHANGED <<provided, df, checkbox, button, invalid_urls, validated, outcomes, idx,
                   max_retries, delay, attempt, clean, inflight, log, ret, output_data,
                   success_rate>>

\* for idx, row in df.iterrows(): the next row, or the end of the loop
LoopRow ==
    /\ pc = "loop"
    /\ IF idx < Len(df)
       THEN pc' = "attempt" /\ attempt' = 0 /\ log' = <<>>
       ELSE pc' = "finish" /\ UNCHANGED <<attempt, log>>
    /\ UNCHANGED <<provided, df, checkbox, button, invalid_urls, validated, results, writes,
                   outcomes, idx, max_retries, delay, clean, inflight, ret, output_data,
                   success_rate>>

\* site_url = row[url_column].strip()
site_url == Strip(df[idx + 1])

\* the except clause: another attempt after the delay, or None
\* (off by one: the last attempt is followed by a sleep too)
AttemptsRemainOffByOne(a, bound) == a < bound
AttemptsRemain(a, bound) == a < bound - 1
OnException(kind) ==
    IF AttemptsRemain(attempt, max_retries)
    THEN /\ log' = log \o <<Event("exception", kind, 0, JNull), Event("sleep", "", delay, JNull)>>
         /\ attempt' = attempt + 1
         /\ pc' = "attempt"
         /\ UNCHANGED ret
    ELSE /\ log' = log \o <<Event("exception", kind, 0, JNull), Event("error", kind, 0, JNull)>>
         /\ ret' = JNull
         /\ pc' = "record"
         /\ UNCHANGED attempt

\* for attempt in range(max_retries): build the target and send the request
\* (range(max_retries + 1))
InRangeInclusive(a, bound) == a <= bound
InRange(a, bound) == a < bound
Attempt ==
    /\ pc = "attempt"
    /\ IF ~InRange(attempt, max_retries)
       THEN /\ ret' = JNull /\ pc' = "record"
            /\ UNCHANGED <<attempt, clean, inflight, log>>
       ELSE /\ clean' = clean_url(site_url)
            /\ IF clean_url(site_url).raised
               THEN OnException("ValueError") /\ UNCHANGED inflight
               ELSE /\ inflight' = inflight \cup {idx + 1}
                    /\ log' = Append(log, Event("request", "", 0, JNull))
                    /\ pc' = "inflight"
                    /\ UNCHANGED <<attempt, ret>>
    /\ UNCHANGED <<provided, df, checkbox, button, invalid_urls, validated, results, writes,
                   outcomes, idx, max_retries, delay, output_data, success_rate>>

\* the request fails: no connection, a status raise_for_status() rejects, a body that is no JSON
RequestFails ==
    /\ pc = "inflight"
    /\ \E kind \in RequestFailures : OnException(kind)
    /\ inflight' = inflight \ {idx + 1}
    /\ UNCHANGED <<provided, df, checkbox, button, invalid_urls, validated, results, writes,
                   outcomes, idx, max_retries, delay, clean, output_data, success_rate>>

\* (the return is missing: the loop goes on to the next attempt)
RequestSucceedsNoReturn ==
    /\ pc = "inflight"
    /\ \E body \in ResponseBodies :
          /\ ret' = body
          /\ log' = Append(log, Event("ok", "", 0, body))
    /\ inflight' = inflight \ {idx + 1}
    /\ attempt' = attempt + 1
    /\ pc' = "attempt"
    /\ UNCHANGED <<provided, df, checkbox, button, invalid_urls, validated, results, writes,
                   outcomes, idx, max_retries, delay, clean, output_data, success_rate>>

\* return response.json()
RequestSucceeds ==
    /\ pc = "inflight"
    /\ \E body \in ResponseBodies :
          /\ ret' = body
          /\ log' = Append(log, Event("ok", "", 0, body))
    /\ inflight' = inflight \ {idx + 1}
    /\ pc' = "record"
    /\ UNCHANGED <<provided, df, checkbox, button, invalid_urls, validated, results, writes,
                   outcomes, idx, max_retries, delay, attempt, clean, output_data, success_rate>>

\* How the call that just returned ended
TerminalFailure == log # <<>> /\ log[Len(log)].ev = "error"
CallOutcome ==
    IF log = <<>> \/ TerminalFailure THEN "failed"
    ELSE IF HasJsonUrl(ret) THEN "link" ELSE "no link"

\* (the cell is assigned on the copy iterrows() yields, not on df)
RecordOnCopy ==
    /\ pc = "record"
    /\ IF ExtractResult(ret).raised
       THEN pc' = "error" /\ UNCHANGED <<outcomes, idx, log>>
       ELSE /\ outcomes' = Append(outcomes, CallOutcome)
            /\ idx' = idx + 1
            /\ pc' = "loop"
            /\ log' = <<>>
    /\ UNCHANGED <<provided, df, checkbox, button, invalid_urls, validated, results, writes,
                   max_retries, delay, attempt, clean, inflight, ret, output_data,
                   success_rate>>

\* the row's cell is assigned; an exception here ends the run in the outer except
Record ==
    /\ pc = "record"
    /\ IF ExtractResult(ret).raised
       THEN pc' = "error" /\ UNCHANGED <<results, writes, outcomes, idx, log>>
       ELSE /\ results' = [results EXCEPT ![idx + 1] = ExtractResult(ret).cell]
            /\ writes' = [writes EXCEPT ![idx + 1] = @ + 1]
            /\ outcomes' = Append(outcomes, CallOutcome)
            /\ idx' = idx + 1
            /\ pc' = "loop"
            /\ log' = <<>>
    /\ UNCHANGED <<provided, df, checkbox, button, invalid_urls, validated, max_retries,
                   delay, attempt, clean, inflight, ret, output_data, success_rate>>

\* the table is kept for download and the success rate is shown
Finish ==
    /\ pc = "finish"
    /\ output_data' = "tsv"
    /\ success_rate' = success_rate_of(results)
    /\ pc' = "complete"
    /\ UNCHANGED <<provided, df, checkbox, button, invalid_urls, validated, results, writes,
                   outcomes, idx, max_retries, delay, attempt, clean, inflight, log, ret>>

Next ==
    \/ ProvideInputs \/ ToggleCheckbox \/ ClickRunTests \/ ClickDownload
    \/ ReadFile \/ Validate \/ Gate \/ Button \/ LoopRow
    \/ Attempt \/ RequestFails \/ RequestSucceeds \/ Record \/ Finish

\* ------------------------------------- the two functions applied to one URL
\* validate_urls and the submitter's target, each applied to one first-column value
InitUrl == InitWith({<<u>> : u \in AllUrls}, {DEFAULT_MAX_RETRIES}, {DEFAULT_DELAY}, "call")

CallValidate ==
    /\ pc = "call"
    /\ invalid_urls' = validate_urls(df)
    /\ validated' = 1..Len(df)
    /\ pc' = "validated"
    /\ UNCHANGED <<provided, df, checkbox, button, results, writes, outcomes, idx, max_retries,
                   delay, attempt, clean, inflight, log, ret, output_data, success_rate>>

CallCleanUrl ==
    /\ pc = "validated"
    /\ clean' = clean_url(site_url)
    /\ pc' = "parsed"
    /\ UNCHANGED <<provided, df, checkbox, button, invalid_urls, validated, results, writes,
                   outcomes, idx, max_retries, delay, attempt, inflight, log, ret, output_data,
                   success_rate>>

NextUrl == CallValidate \/ CallCleanUrl

Spec == Init /\ [][Next]_vars
SpecArgs == InitArgs /\ [][Next]_vars
SpecUrl == InitUrl /\ [][NextUrl]_vars

TypeOK == pc \in {"info", "read_file", "stopped_empty", "validate", "gate", "stopped_gate",
                  "button", "await_button", "loop", "attempt", "inflight", "record",
                  "finish", "complete", "error", "call", "validated", "parsed"}

\* ------------------------------------------------------------------- claims
\* Positions of the log that hold an event of the given sort
EventsOf(ev) == {i \in 1..Len(log) : log[i].ev = ev}
\* The call of the current row has returned to the batch loop
Returned == pc = "record"

\* C1: for every max_retries >= 1, when every attempt of a call sent its request
\* and failed (connection, status or JSON error), the call has sent exactly
\* max_retries requests, has slept `delay` seconds after each failed attempt but
\* the last and nowhere else, has reported the terminal failure and returns None.
EveryAttemptFailed ==
    /\ Returned /\ max_retries >= 1
    /\ EventsOf("ok") = {}
    /\ \A i \in EventsOf("exception") : log[i].kind \in RequestFailures
C1_AllFail ==
    EveryAttemptFailed =>
        /\ Cardinality(EventsOf("request")) = max_retries
        /\ Cardinality(EventsOf("sleep")) = max_retries - 1
        /\ Len(log) = 3 * max_retries
        /\ \A a \in 0..(max_retries - 1) :
              /\ log[3 * a + 1].ev = "request"
              /\ log[3 * a + 2].ev = "exception"
              /\ log[3 * a + 3] = IF a < max_retries - 1
                                  THEN Event("sleep", "", delay, JNull)
                                  ELSE Event("error", log[3 * a + 2].kind, 0, JNull)
        /\ ret = JNull
C1_Witness ==
    /\ EveryAttemptFailed /\ max_retries = 3 /\ delay > 0
    /\ {log[i].kind : i \in EventsOf("exception")} = RequestFailures

\* C2: when attempt k of a call succeeds after k-1 failed attempts, the call
\* returns the body parsed in attempt k, and the success is the last thing the
\* call does: exactly k requests, k-1 sleeps, nothing after the success.
SucceededAtAttempt(k) == Returned /\ EventsOf("ok") # {} /\ attempt = k - 1
C2_StopOnSuccess ==
    LET k == attempt + 1
    IN  SucceededAtAttempt(k) =>
            /\ k <= max_retries
            /\ EventsOf("ok") = {Len(log)}
            /\ ret = log[Len(log)].body
            /\ Cardinality(EventsOf("request")) = k
            /\ Cardinality(EventsOf("exception")) = k - 1
            /\ Cardinality(EventsOf("sleep")) = k - 1
            /\ Len(log) = 3 * (k - 1) + 2
            /\ log[Len(log) - 1].ev = "request"
C2_Witness ==
    /\ SucceededAtAttempt(2) /\ max_retries = 3
    /\ HasJsonUrl(ret)
    /\ Cardinality(EventsOf("request")) = 2

\* C10: with max_retries <= 0 a call sends no request, does not sleep, reports
\* no terminal failure and returns None, and the batch gives the row the
\* failure sentinel.
C10_NoAttempts ==
    max_retries <= 0 =>
        /\ inflight = {} /\ pc # "inflight"
        /\ log = <<>>
        /\ (Returned => ret = JNull)
        /\ \A i \in 1..idx : results[i] = SentinelCell
C10_Witness ==
    /\ max_retries <= 0 /\ pc = "complete" /\ Len(df) >= 1
    /\ \A i \in 1..Len(df) : results[i] = SentinelCell

\* C3: when a batch run is complete every row has been given exactly one
\* result, and the result a row is given is the link of the response its call
\* returned or else the sentinel; no other row's cell changes.
JsonUrlOf(v) == v.fields[KEY_DATA].fields[KEY_JSONURL]
C3_Complete ==
    pc = "complete" =>
        /\ Len(results) = Len(df)
        /\ \A i \in 1..Len(df) : writes[i] = 1 /\ results[i] # EmptyCell
C3_Step ==
    (pc = "record" /\ pc' = "loop") =>
        /\ results'[idx + 1] = IF HasJsonUrl(ret) THEN JsonUrlOf(ret) ELSE SentinelCell
        /\ \A j \in 1..Len(df) : j # idx + 1 => results'[j] = results[j]
C3_OneResultPerRow == []C3_Complete /\ [][C3_Step]_vars
C3_Witness ==
    /\ pc = "complete" /\ Len(df) >= 2
    /\ \E i, j \in 1..Len(df) : results[i] = SentinelCell /\ results[j] = JStr(LinkA)

\* C4: a call that fails terminally gives its row the sentinel and the loop
\* goes on; it never ends the run.  With three rows of which the second failed
\* and the others got links, the table has three results, the second is the
\* sentinel and the success rate shown is 66.7%.
C4_State ==
    /\ pc = "error" => ~TerminalFailure /\ log # <<>>
    /\ \A i \in 1..Len(outcomes) : outcomes[i] = "failed" => results[i] = SentinelCell
    /\ (pc = "complete" /\ Len(df) = 3 /\ outcomes = <<"link", "failed", "link">>) =>
          /\ Len(results) = 3
          /\ results[1] \in {JStr(LinkA), JStr(LinkB)}
          /\ results[2] = SentinelCell
          /\ results[3] \in {JStr(LinkA), JStr(LinkB)}
          /\ success_rate = 667
C4_Step ==
    (pc = "record" /\ TerminalFailure) =>
        pc' = "loop" /\ idx' = idx + 1 /\ results'[idx + 1] = SentinelCell
C4_FailedRowContinues == []C4_State /\ [][C4_Step]_vars
C4_Witness ==
    /\ pc = "complete" /\ Len(df) = 3 /\ outcomes = <<"link", "failed", "link">>
    /\ success_rate = 667

\* C5: at most one request is outstanding, it is for the row the loop is at,
\* every earlier row has its result recorded and no later row has been touched.
C5_Sequential ==
    /\ Cardinality(inflight) <= 1
    /\ \A r \in inflight :
          /\ r = idx + 1
          /\ \A i \in 1..(r - 1) : writes[i] = 1 /\ results[i] # EmptyCell
          /\ \A i \in r..Len(df) : writes[i] = 0 /\ results[i] = EmptyCell
C5_Witness == inflight = {3} /\ results[1] = SentinelCell /\ results[2] = JStr(LinkB)

\* C6: no request is sent before every row was validated, nor, when there are
\* warnings, before the operator ticked the checkbox; past the gate every row,
\* flagged or not, has its request sent.
Flagged(i) == \E k \in 1..Len(invalid_urls) : invalid_urls[k].url \in {df[i], HTTPS_PREFIX \o df[i]}
C6_Gate ==
    (inflight # {} \/ pc \in {"loop", "attempt", "inflight", "record", "finish"}) =>
        /\ validated = 1..Len(df)
        /\ invalid_urls = <<>> \/ checkbox
C6_Step == (pc = "attempt" /\ attempt < max_retries) => inflight' = {idx + 1}
C7_MissingLinkIsRowFailure ==
    [][(pc = "record" /\ ~TerminalFailure /\ log # <<>> /\ ~HasJsonUrl(ret)) =>
          (pc' = "loop" /\ results'[idx + 1] = SentinelCell)]_vars

\* The issue validate_urls reported for the one row of the table; "" when none
IssueReported == IF invalid_urls = <<>> THEN "" ELSE invalid_urls[1].issue
ValidateCalled == pc \in {"validated", "parsed"}

\* The rule of C8: the trimmed URL is parsed and, when it has neither scheme
\* nor host, "https://" is put in front of the URL as given and that is parsed;
\* a parse that raises is reported with its message, an empty host is
\* MissingDomain, a host without "." is InvalidDomainFormat.
NoSchemeNoHost(url) ==
    ~urlparse(url).raised /\ urlparse(url).scheme = <<>> /\ urlparse(url).netloc = <<>>
RuleUrl(raw) ==
    IF NoSchemeNoHost(Strip(raw)) THEN HTTPS_PREFIX \o raw ELSE Strip(raw)
RuleIssue(raw) ==
    IF urlparse(RuleUrl(raw)).raised THEN MSG_INVALID_IPV6
    ELSE IF urlparse(RuleUrl(raw)).netloc = <<>> THEN MSG_MISSING_DOMAIN
    ELSE IF "." \notin Range(urlparse(RuleUrl(raw)).netloc) THEN MSG_INVALID_DOMAIN
    ELSE ""

\* C8 as stated: validate_urls reports what the rule gives; "example.com" has
\* no issue, "localhost" is InvalidDomainFormat and "not a url" is
\* MissingDomain or a parse error.
C8_AsStated ==
    ValidateCalled =>
        /\ IssueReported = RuleIssue(df[1])
        /\ df[1] = URL_EXAMPLE_COM => IssueReported = ""
        /\ df[1] = URL_LOCALHOST => IssueReported = MSG_INVALID_DOMAIN
        /\ df[1] = URL_NOT_A_URL => IssueReported \in {MSG_MISSING_DOMAIN, MSG_INVALID_IPV6}

\* C8 (amended): validate_urls reports what the rule gives; "example.com" has
\* no issue, "localhost" and "not a url" are both InvalidDomainFormat (the
\* prefixed "not a url" has the host "not a url", which has no ".").
C8_Classification ==
    ValidateCalled =>
        /\ IssueReported = RuleIssue(df[1])
        /\ df[1] = URL_EXAMPLE_COM => IssueReported = ""
        /\ df[1] = URL_LOCALHOST => IssueReported = MSG_INVALID_DOMAIN
        /\ df[1] = URL_NOT_A_URL => IssueReported = MSG_INVALID_DOMAIN
C8_Witness == ValidateCalled /\ df[1] = URL_NOT_A_URL /\ IssueReported = MSG_INVALID_DOMAIN

\* The submitter has built the target of the one row of the table
TargetBuilt == pc = "parsed"
\* The URL the submitter gets is one the validator would put "https://" in front of
Unprefixed == NoSchemeNoHost(site_url)

PlainUrl(url) ==
    /\ Range(url) \cap {";", "[", "]"} = {}
    /\ ~(Len(url) >= 2 /\ url[1] = "/" /\ url[2] = "/")
====
